---- MODULE Spec2Model ----
(***************************************************************************)
(* Model of the DocHunter recruiter dashboard (app.py).                    *)
(*                                                                         *)
(* The script is re-executed top to bottom on every user interaction of a  *)
(* browser session.  One execution ("rendering pass") loads the physician  *)
(* table through a process-wide cache, narrows it with the sidebar         *)
(* filters, renders one card with a note text area per visible row,        *)
(* writes non-blank notes into st.session_state.flagged and builds the     *)
(* flagged table and its CSV download.                                     *)
(*                                                                         *)
(* Text whose characters the code inspects (license_states, specialty,    *)
(* notes) is a sequence of one-character strings; text the code only      *)
(* copies (names, phone, status) is an opaque string.                      *)
(***************************************************************************)
EXTENDS Integers, Sequences, FiniteSets, TLC

VARIABLES source, cache, widgets, session_state, page

vars == <<source, cache, widgets, session_state, page>>

\* ------------------------------------------------------------------ bounds
MaxNoteLen == 2

Sessions == {1, 2}

\* ------------------------------------------------------------ python text
Whitespace == {" ", "\t", "\n"}

RECURSIVE lstrip(_)
lstrip(x) ==
    IF x = <<>> THEN <<>>
    ELSE IF Head(x) \in Whitespace THEN lstrip(Tail(x)) ELSE x

RECURSIVE rstrip(_)
rstrip(x) ==
    IF x = <<>> THEN <<>>
    ELSE IF x[Len(x)] \in Whitespace THEN rstrip(SubSeq(x, 1, Len(x) - 1)) ELSE x

\* strip() mistaken for lstrip(): trailing whitespace is kept
strip_leading_only(x) == lstrip(x)

\* str.strip() with no argument
strip(x) == rstrip(lstrip(x))

\* str.split(sep) for a one-character separator: always at least one piece
RECURSIVE split(_, _)
split(x, sep) ==
    IF \A i \in 1..Len(x) : x[i] # sep THEN <<x>>
    ELSE LET k == CHOOSE i \in 1..Len(x) :
                      x[i] = sep /\ \A j \in 1..(i - 1) : x[j] # sep
         IN  <<SubSeq(x, 1, k - 1)>> \o split(SubSeq(x, k + 1, Len(x)), sep)

UpperCase == <<"A","B","C","D","E","F","G","H","I","J","K","L","M",
               "N","O","P","Q","R","S","T","U","V","W","X","Y","Z">>
LowerCase == <<"a","b","c","d","e","f","g","h","i","j","k","l","m",
               "n","o","p","q","r","s","t","u","v","w","x","y","z">>

lower_char(c) ==
    IF \E i \in 1..26 : UpperCase[i] = c
    THEN LowerCase[CHOOSE i \in 1..26 : UpperCase[i] = c]
    ELSE c

lower(x) == [i \in 1..Len(x) |-> lower_char(x[i])]

\* pat occurs in x as a contiguous run
contains(x, pat) ==
    \E i \in 0..(Len(x) - Len(pat)) :
        \A j \in 1..Len(pat) : x[i + j] = pat[j]

\* ---------------------------------------------------------- pandas values
\* the missing-value marker of a text cell (float nan in an object column)
NaN == <<"<NaN>">>

\* what str(float('nan')) gives
nan_str == <<"n", "a", "n">>

\* raw cell texts that read_csv turns into NaN (default na_values, those
\* that can be written with the characters used here)
na_values == { <<>>, <<"N","A">>, <<"n","a","n">>, <<"N","a","N">> }

\* dict.get(k, default)
get(d, k, default) == IF k \in DOMAIN d THEN d[k] ELSE default

\* d[k] = v
put(d, k, v) == [x \in (DOMAIN d) \cup {k} |-> IF x = k THEN v ELSE d[x]]

SeqToSet(q) == { q[i] : i \in 1..Len(q) }

\* a frame is [columns |-> sequence of names, rows |-> sequence of
\* [index |-> label, data |-> function from the column names]]
NoFrame == [columns |-> <<>>, rows |-> <<>>]

has_column(df, c) == c \in SeqToSet(df.columns)

\* df[name] = values, one value per row: a new column goes last, an existing
\* one keeps its place
assign_column(df, name, values) ==
    [columns |-> IF has_column(df, name) THEN df.columns
                 ELSE Append(df.columns, name),
     rows    |-> [i \in 1..Len(df.rows) |->
                     [index |-> df.rows[i].index,
                      data  |-> put(df.rows[i].data, name, values[i])]]]

\* df[mask]: boolean indexing with a mask aligned on the rows keeps the
\* selected rows, their labels and their order
RECURSIVE select_rows(_, _)
select_rows(rows, mask) ==
    IF rows = <<>> THEN <<>>
    ELSE (IF Head(mask) THEN <<Head(rows)>> ELSE <<>>)
         \o select_rows(Tail(rows), Tail(mask))

boolean_index(df, mask) ==
    [columns |-> df.columns, rows |-> select_rows(df.rows, mask)]

\* ------------------------------------------------- scored_physicians.csv
required_columns ==
    <<"npi", "full_name", "primary_specialty", "license_states",
      "multi_state_licensed", "locum_candidate_flag",
      "recruiter_priority_score">>

\* columns whose cells are modelled character by character
TextColumns == {"primary_specialty", "license_states", "locum_keywords"}

AllColumns ==
    <<"npi", "full_name", "primary_specialty", "status", "phone",
      "practice_address", "license_states", "multi_state_licensed",
      "locum_candidate_flag", "recruiter_priority_score", "locum_keywords">>

Emergency == <<"E","m","e","r","g","e","n","c","y">>
EMERGENCY_ROOM == <<"E","M","E","R","G","E","N","C","Y"," ","R","O","O","M">>
Cardiology == <<"C","a","r","d","i","o","l","o","g","y">>

RawRow(npi, name, spec, status, lic, multi, locum, score) ==
    [npi |-> npi, full_name |-> name, primary_specialty |-> spec,
     status |-> status, phone |-> "555", practice_address |-> "1 Main St",
     license_states |-> lic, multi_state_licensed |-> multi,
     locum_candidate_flag |-> locum, recruiter_priority_score |-> score,
     locum_keywords |-> <<"l","o","c","u","m">>]

Restrict(f, S) == [x \in S |-> f[x]]

Table(cols, rawrows) ==
    [kind |-> "table", columns |-> cols,
     rows |-> [i \in 1..Len(rawrows) |-> Restrict(rawrows[i], SeqToSet(cols))]]

\* the source file is missing
Absent == [kind |-> "absent"]
\* the source file has no bytes
EmptyFile == [kind |-> "empty"]
\* the source file cannot be tokenized as CSV
Malformed == [kind |-> "malformed"]

\* every column; an ACTIVE record scored 85 and an INACTIVE one scored 10
FileA ==
    Table(AllColumns,
          <<RawRow(1, "Ann", EMERGENCY_ROOM, "ACTIVE",
                   <<"C","A",",","N","Y">>, TRUE, TRUE, 85),
            RawRow(2, "Bob", Cardiology, "INACTIVE",
                   <<"T","X">>, FALSE, FALSE, 10)>>)

\* every column; an empty license_states cell, a license_states cell with
\* only blanks and a comma, an empty specialty cell, a score on the default
\* threshold
FileD ==
    Table(AllColumns,
          <<RawRow(1, "Cy", <<>>, "ACTIVE", <<>>, FALSE, TRUE, 20),
            RawRow(2, "Di", Emergency \o <<" ","M","e","d">>, "ACTIVE",
                   <<" ",","," ">>, TRUE, FALSE, 50)>>)

\* exactly the seven required columns
FileB ==
    Table(required_columns,
          <<RawRow(1, "Ann", EMERGENCY_ROOM, "ACTIVE",
                   <<"C","A">>, TRUE, TRUE, 85)>>)

\* the seven required columns and locum_keywords
FileE ==
    Table(required_columns \o <<"locum_keywords">>,
          <<RawRow(1, "Ann", EMERGENCY_ROOM, "ACTIVE",
                   <<"C","A">>, TRUE, TRUE, 85)>>)

\* two required columns are missing
FileC ==
    Table(<<"full_name", "primary_specialty", "status", "license_states",
            "multi_state_licensed", "locum_candidate_flag", "locum_keywords">>,
          <<RawRow(1, "Ann", EMERGENCY_ROOM, "ACTIVE",
                   <<"C","A">>, TRUE, TRUE, 85)>>)

Sources == {Absent, EmptyFile, Malformed, FileA, FileB, FileC, FileD, FileE}

\* ------------------------------------------------------------- load_data
\* pd.read_csv: the header gives the columns, the rows get labels 0..n-1,
\* and a text cell holding one of the na_values becomes NaN
read_csv(src) ==
    [columns |-> src.columns,
     rows    |-> [i \in 1..Len(src.rows) |->
                    [index |-> i - 1,
                     data  |-> [c \in DOMAIN src.rows[i] |->
                                  IF c \in TextColumns /\ src.rows[i][c] \in na_values
                                  THEN NaN ELSE src.rows[i][c]]]]]

\* Series.astype(str) on one cell: NaN becomes the text "nan"
astype_str(v) == IF v = NaN THEN nan_str ELSE v

\* Series.fillna('') on one cell
fillna_empty(v) == IF v = NaN THEN <<>> ELSE v

\* [s.strip() for s in x.split(',') if s.strip()]
RECURSIVE strip_nonblank(_)
strip_nonblank(pieces) ==
    IF pieces = <<>> THEN <<>>
    ELSE (IF strip(Head(pieces)) # <<>> THEN <<strip(Head(pieces))>> ELSE <<>>)
         \o strip_nonblank(Tail(pieces))

license_states_list_of(x) == strip_nonblank(split(x, ","))

missing_columns(df) ==
    SelectSeq(required_columns, LAMBDA c : ~has_column(df, c))

\* line 51
license_states_as_str(df) ==
    assign_column(df, "license_states",
        [i \in 1..Len(df.rows) |-> astype_str(df.rows[i].data["license_states"])])

\* line 52
locum_keywords_as_str(df) ==
    assign_column(df, "locum_keywords",
        [i \in 1..Len(df.rows) |-> astype_str(df.rows[i].data["locum_keywords"])])

\* lines 53-55
add_license_states_list(df) ==
    assign_column(df, "license_states_list",
        [i \in 1..Len(df.rows) |->
            license_states_list_of(fillna_empty(df.rows[i].data["license_states"]))])

\* lines 51-56: the three column assignments after the try block
normalise(df) ==
    add_license_states_list(locum_keywords_as_str(license_states_as_str(df)))

Stop(line, msg) == [result |-> "stop", line |-> line, error |-> msg, value |-> NoFrame]
Raise(line, exc) == [result |-> "raise", line |-> line, error |-> exc, value |-> NoFrame]
Return(df) == [result |-> "return", line |-> 56, error |-> "none", value |-> df]

\* the body of load_data; io says whether the backup copy can be written
load_data_body(src, io) ==
    IF src.kind = "absent" THEN Stop(43, "not found")
    ELSE IF io = "backup fails" THEN Stop(49, "unexpected error")
    ELSE IF src.kind = "empty" THEN Stop(46, "empty or malformed")
    ELSE IF src.kind = "malformed" THEN Stop(49, "unexpected error")
    ELSE LET df == read_csv(src) IN
         IF missing_columns(df) # <<>> THEN Stop(39, "missing required columns")
         ELSE IF ~has_column(df, "locum_keywords") THEN Raise(52, "KeyError")
         ELSE Return(normalise(df))

\* @st.cache_data(ttl=3600): one entry (the function has no arguments),
\* served until it is ttl seconds old; a call that stops or raises stores
\* nothing
ttl == 3600

cache_valid(c) == c # <<>> /\ c[1].age < ttl

load_data(c, src, io) ==
    IF cache_valid(c) THEN Return(c[1].value) ELSE load_data_body(src, io)

cache_after(c, src, io) ==
    IF cache_valid(c) THEN c
    ELSE IF load_data_body(src, io).result = "return"
         THEN <<[value |-> load_data_body(src, io).value, age |-> 0]>>
         ELSE <<>>

\* ------------------------------------------------------- sidebar filters
\* Series.str.contains('Emergency', case=False, na=False) on one cell
str_contains_emergency(v) ==
    IF v = NaN THEN FALSE ELSE contains(lower(v), lower(Emergency))

filter_data(df, specialty_filter) ==
    IF specialty_filter = "Emergency Room Doctors"
    THEN boolean_index(df, [i \in 1..Len(df.rows) |->
             str_contains_emergency(df.rows[i].data["primary_specialty"])])
    ELSE df

\* set(state for sublist in df['license_states_list'] for state in sublist);
\* the sorted() around it only orders the options shown
all_states_of(df) ==
    UNION { SeqToSet(df.rows[i].data["license_states_list"]) :
              i \in 1..Len(df.rows) }

\* explode().isin(selected_states).groupby(level=0).any(): a row with an empty
\* list explodes to a single NaN, which is in no selection
license_state_filter(df, selected_states) ==
    boolean_index(df, [i \in 1..Len(df.rows) |->
        \E k \in 1..Len(df.rows[i].data["license_states_list"]) :
            df.rows[i].data["license_states_list"][k] \in selected_states])

\* the multiselect keeps the user's selection while its options are the
\* same and starts from default=all_states when they are not
selected_states_of(w, all_states) ==
    IF w.options = all_states THEN w.selected_states ELSE all_states

flag_filter(df, enabled, column) ==
    IF enabled
    THEN boolean_index(df, [i \in 1..Len(df.rows) |-> df.rows[i].data[column]])
    ELSE df

score_filter(df, min_score) ==
    boolean_index(df, [i \in 1..Len(df.rows) |->
        df.rows[i].data["recruiter_priority_score"] >= min_score])

\* the active-only checkbox ignored
status_filter_ignored(df, active_only) == df

status_filter(df, active_only) ==
    IF active_only
    THEN boolean_index(df, [i \in 1..Len(df.rows) |->
             df.rows[i].data["status"] = "ACTIVE"])
    ELSE df

\* lines 190-196
advanced_filters(df, w) ==
    IF w.active_only /\ ~has_column(df, "status") THEN Raise(191, "KeyError")
    ELSE Return(
           score_filter(
             flag_filter(
               flag_filter(status_filter(df, w.active_only),
                           w.multi_state_only, "multi_state_licensed"),
               w.locum_only, "locum_candidate_flag"),
             w.min_score))

DefaultWidgets ==
    [specialty_filter |-> "All Doctors", options |-> {},
     selected_states |-> {}, active_only |-> TRUE,
     multi_state_only |-> FALSE, locum_only |-> FALSE, min_score |-> 20]

\* ---------------------------------------------------------- profile cards
\* st.text_area(value=current_note, key=note_<npi>): the text the user typed
\* into this card in this pass, else the value it was given.  (A card the
\* user left alone may also return what was typed into it earlier; that is
\* either blank, which writes nothing, or the text whose stripped form is
\* already stored, so the store after the pass is the same.)
text_area(npi, current_note, edit) ==
    IF edit # <<>> /\ edit[1].id = npi THEN edit[1].text ELSE current_note

\* lines 227-230 for one row
flag_candidate(flagged, npi, edit) ==
    IF strip(text_area(npi, get(flagged, npi, <<>>), edit)) # <<>>
    THEN put(flagged, npi, strip(text_area(npi, get(flagged, npi, <<>>), edit)))
    ELSE flagged

\* the for loop of lines 216-230 over the visible rows
RECURSIVE profile_cards(_, _, _)
profile_cards(rows, flagged, edit) ==
    IF rows = <<>> THEN flagged
    ELSE profile_cards(Tail(rows),
                       flag_candidate(flagged, Head(rows).data["npi"], edit),
                       edit)

\* row.status, row.phone, row.practice_address of the first card
card_columns == <<"status", "phone", "practice_address">>

\* ----------------------------------------------------- flagged candidates
\* the isin() selection left out: every visible row gets a flag_note
flagged_data_unselected(df, flagged) ==
    assign_column(df, "flag_note",
        [i \in 1..Len(df.rows) |-> get(flagged, df.rows[i].data["npi"], <<>>)])

\* line 235: df[df['npi'].isin(flagged.keys())]
npi_isin(df, flagged) ==
    boolean_index(df, [i \in 1..Len(df.rows) |->
        df.rows[i].data["npi"] \in DOMAIN flagged])

\* lines 235-236
flagged_data_of(df, flagged) ==
    assign_column(npi_isin(df, flagged), "flag_note",
        [i \in 1..Len(npi_isin(df, flagged).rows) |->
            get(flagged, npi_isin(df, flagged).rows[i].data["npi"], <<>>)])

display_columns_of(fd) ==
    SelectSeq(<<"full_name", "primary_specialty", "license_states",
                "recruiter_priority_score", "flag_note">>,
              LAMBDA c : has_column(fd, c))

\* DataFrame.to_csv(index=False): a header line with the frame's columns and
\* one line per row with the cells in column order (the text form of a cell
\* is not modelled)
to_csv(fd) ==
    [header  |-> fd.columns,
     records |-> [i \in 1..Len(fd.rows) |->
                    [j \in 1..Len(fd.columns) |-> fd.rows[i].data[fd.columns[j]]]]]

\* -------------------------------------------------- one rendering pass
\* what a pass left on the page of a session, and what it read
Page(status, line, error, seen, loaded, df, edit, fd, shown, download) ==
    [status |-> status, line |-> line, error |-> error, seen |-> seen,
     loaded |-> loaded, df |-> df, edit |-> edit, flagged_data |-> fd,
     shown |-> shown, download |-> download]

NoPage == Page("none", 0, "none", Absent, NoFrame, NoFrame, <<>>, NoFrame, <<>>, <<>>)

Outcome(c, w, ss, p) ==
    [cache |-> c, widgets |-> w, session_state |-> ss, page |-> p]

\* lines 233-245
flagged_candidates(df_full, df, w, c, src, ss, edit) ==
    IF DOMAIN ss["flagged"] # {}
    THEN Outcome(c, w, ss,
             Page("done", 0, "none", src, df_full, df, edit,
                  flagged_data_of(df, ss["flagged"]),
                  display_columns_of(flagged_data_of(df, ss["flagged"])),
                  <<to_csv(flagged_data_of(df, ss["flagged"]))>>))
    ELSE Outcome(c, w, ss,
             Page("done", 0, "none", src, df_full, df, edit, NoFrame, <<>>, <<>>))

\* lines 216-230: the first card reads row.status, row.phone and
\* row.practice_address before its text area is reached
cards(df_full, df, w, c, src, ss, edit) ==
    IF df.rows # <<>> /\ \E k \in 1..3 : ~has_column(df, card_columns[k])
    THEN Outcome(c, w, ss,
             Page("exception",
                  220 + (CHOOSE k \in 1..3 : ~has_column(df, card_columns[k])
                            /\ \A j \in 1..(k - 1) : has_column(df, card_columns[j])),
                  "AttributeError", src, df_full, df, edit, NoFrame, <<>>, <<>>))
    ELSE flagged_candidates(df_full, df, w, c, src,
             put(ss, "flagged", profile_cards(df.rows, ss["flagged"], edit)),
             edit)

\* lines 199-200
init_flagged(ss) ==
    IF "flagged" \in DOMAIN ss THEN ss ELSE put(ss, "flagged", <<>>)

after_filters(df_full, af, w, c, src, ss, edit) ==
    IF af.result = "raise"
    THEN Outcome(c, w, ss,
             Page("exception", af.line, af.error, src, df_full, NoFrame, edit,
                  NoFrame, <<>>, <<>>))
    ELSE cards(df_full, af.value, w, c, src, init_flagged(ss), edit)

\* lines 174-196
sidebar(df_full, df1, w, c, src, ss, edit) ==
    after_filters(df_full,
        advanced_filters(
            license_state_filter(df1, selected_states_of(w, all_states_of(df1))), w),
        [w EXCEPT !.options = all_states_of(df1),
                  !.selected_states = selected_states_of(w, all_states_of(df1))],
        c, src, ss, edit)

\* line 59 onwards: a load that stops or raises ends the pass before any
\* widget is rendered, so the widgets are back at their defaults afterwards
after_load(ld, c, src, w, ss, edit) ==
    IF ld.result # "return"
    THEN Outcome(c, DefaultWidgets, ss,
             Page(IF ld.result = "stop" THEN "stopped" ELSE "exception",
                  ld.line, ld.error, src, NoFrame, NoFrame, edit,
                  NoFrame, <<>>, <<>>))
    ELSE sidebar(ld.value, filter_data(ld.value, w.specialty_filter),
                 w, c, src, ss, edit)

\* the whole script, top to bottom
run_script(c, src, w, ss, edit, io) ==
    after_load(load_data(c, src, io), cache_after(c, src, io), src, w, ss, edit)

\* one process-wide object instead of one per session
write_shared(f, s, v) == [t \in DOMAIN f |-> v]

\* each session has its own st.session_state, widgets and page
write_session(f, s, v) == [f EXCEPT ![s] = v]

Rerun(s, w, edit, io) ==
    \E out \in {run_script(cache, source, w, session_state[s], edit, io)} :
        /\ cache' = out.cache
        /\ widgets' = write_session(widgets, s, out.widgets)
        /\ session_state' = write_session(session_state, s, out.session_state)
        /\ page' = write_session(page, s, out.page)
        /\ UNCHANGED source

\* ------------------------------------------------------------ user inputs
TickStep == 1800

NoteChars == {" ", "a"}
Texts == UNION { [1..n -> NoteChars] : n \in 0..MaxNoteLen }

MinScores == {0, 20, 51}
Checkboxes == {"active_only", "multi_state_only", "locum_only"}

\* the backup copy can fail only when load_data's body runs
IOs == IF cache_valid(cache) THEN {"ok"} ELSE {"ok", "backup fails"}

sidebar_rendered(p) ==
    p.status = "done" \/ (p.status = "exception" /\ p.line >= 191)

card_rendered(p, id) ==
    p.status = "done" /\ \E i \in 1..Len(p.df.rows) : p.df.rows[i].data["npi"] = id

\* ---------------------------------------------------------------- actions
\* the user opens or reloads the page
Refresh(s) ==
    \E io \in IOs : Rerun(s, widgets[s], <<>>, io)

\* the user picks a doctor type
SetSpecialty(s) ==
    /\ sidebar_rendered(page[s])
    /\ \E v \in {"All Doctors", "Emergency Room Doctors"}, io \in IOs :
         /\ v # widgets[s].specialty_filter
         /\ Rerun(s, [widgets[s] EXCEPT !.specialty_filter = v], <<>>, io)

\* the user changes the license-state selection
SelectStates(s) ==
    /\ sidebar_rendered(page[s])
    /\ \E sel \in SUBSET widgets[s].options, io \in IOs :
         /\ sel # widgets[s].selected_states
         /\ Rerun(s, [widgets[s] EXCEPT !.selected_states = sel], <<>>, io)

\* the user ticks or unticks one of the three checkboxes
ToggleCheckbox(s) ==
    /\ sidebar_rendered(page[s])
    /\ \E b \in Checkboxes, io \in IOs :
         Rerun(s, [widgets[s] EXCEPT ![b] = ~@], <<>>, io)

\* the user moves the minimum-score slider
SetMinScore(s) ==
    /\ sidebar_rendered(page[s])
    /\ \E v \in MinScores, io \in IOs :
         /\ v # widgets[s].min_score
         /\ Rerun(s, [widgets[s] EXCEPT !.min_score = v], <<>>, io)

\* the user types text into the note of a card
EditNote(s) ==
    \E id \in {1, 2}, text \in Texts, io \in IOs :
        /\ card_rendered(page[s], id)
        /\ Rerun(s, widgets[s], <<[id |-> id, text |-> text]>>, io)

\* somebody replaces, empties or removes scored_physicians.csv
ModifySource ==
    /\ \E f \in Sources : f # source /\ source' = f
    /\ UNCHANGED <<cache, widgets, session_state, page>>

\* time passes
Tick ==
    /\ cache # <<>>
    /\ cache[1].age < ttl
    /\ cache' = <<[cache[1] EXCEPT !.age = @ + TickStep]>>
    /\ UNCHANGED <<source, widgets, session_state, page>>

Init ==
    /\ source \in Sources
    /\ cache = <<>>
    /\ widgets = [s \in Sessions |-> DefaultWidgets]
    /\ session_state = [s \in Sessions |-> <<>>]
    /\ page = [s \in Sessions |-> NoPage]

\* one recruiter filtering with the checkboxes and the slider, and flagging
Next ==
    \/ Refresh(1)
    \/ ToggleCheckbox(1)
    \/ SetMinScore(1)
    \/ EditNote(1)

Spec == Init /\ [][Next]_vars

\* one recruiter working every sidebar filter
NextFilters ==
    \/ Refresh(1)
    \/ SetSpecialty(1)
    \/ SelectStates(1)
    \/ ToggleCheckbox(1)
    \/ SetMinScore(1)

SpecFilters == Init /\ [][NextFilters]_vars

\* one recruiter reloading and flagging while the file and the clock change
NextLoad ==
    \/ Refresh(1)
    \/ EditNote(1)
    \/ ModifySource
    \/ Tick

SpecLoad == Init /\ [][NextLoad]_vars

\* two browser sessions served by the same process
NextSessions ==
    \E s \in Sessions :
        \/ Refresh(s)
        \/ EditNote(s)

SpecSessions == Init /\ [][NextSessions]_vars

\* ============================================================ properties
\* the AnnotationStore of a session
store(s) ==
    IF "flagged" \in DOMAIN session_state[s] THEN session_state[s]["flagged"]
    ELSE <<>>

Blank(text) == \A i \in 1..Len(text) : text[i] \in Whitespace

\* v is text without its leading and trailing whitespace
IsTrimOf(v, text) ==
    /\ v # <<>>
    /\ v[1] \notin Whitespace
    /\ v[Len(v)] \notin Whitespace
    /\ \E i \in 1..Len(text) :
         /\ i + Len(v) - 1 <= Len(text)
         /\ v = SubSeq(text, i, i + Len(v) - 1)
         /\ \A k \in 1..Len(text) :
              (k < i \/ k > i + Len(v) - 1) => text[k] \in Whitespace

npis(df) == [i \in 1..Len(df.rows) |-> df.rows[i].data["npi"]]

\* the last pass of session s ran to the end and its card for the edited
\* identifier took the text e.text
Edited(s, e) ==
    /\ page[s].status = "done"
    /\ page[s].edit = <<e>>
    /\ \E i \in 1..Len(page[s].df.rows) : page[s].df.rows[i].data["npi"] = e.id

\* C1: after a pass in which the note of a visible record was set to empty
\* or whitespace-only text, the record has no entry in the session's store
\* and no row in the flagged table.
C1_BlankNoteRemovesEntry ==
    \A s \in Sessions : \A id \in {1, 2}, text \in Texts :
        (Edited(s, [id |-> id, text |-> text]) /\ Blank(text))
        => /\ id \notin DOMAIN store(s)
           /\ \A i \in 1..Len(page[s].flagged_data.rows) :
                page[s].flagged_data.rows[i].data["npi"] # id

\* C2: in every step, every note in a session's store is non-empty and has
\* no whitespace at either end; an entry is created or changed only by a
\* non-blank edit of that identifier, and then holds exactly the trimmed text.
C2_Step ==
    \A s \in Sessions :
        /\ \A id \in DOMAIN store(s)' :
             /\ store(s)'[id] # <<>>
             /\ store(s)'[id][1] \notin Whitespace
             /\ store(s)'[id][Len(store(s)'[id])] \notin Whitespace
        /\ \A id \in DOMAIN store(s)' :
             (id \notin DOMAIN store(s) \/ store(s)[id] # store(s)'[id])
             => /\ page'[s].edit # <<>>
                /\ page'[s].edit[1].id = id
                /\ ~Blank(page'[s].edit[1].text)
        /\ \A id \in {1, 2}, text \in Texts :
             (Edited(s, [id |-> id, text |-> text])' /\ ~Blank(text))
             => /\ id \in DOMAIN store(s)'
                /\ IsTrimOf(store(s)'[id], text)

C2_StoredNotesAreTrimmed == [][C2_Step]_vars

\* a note typed with whitespace around it has been stored
C2_Witness ==
    \E s \in Sessions : \E id \in {1, 2}, text \in Texts :
        /\ Edited(s, [id |-> id, text |-> text])
        /\ ~Blank(text)
        /\ (text[1] \in Whitespace \/ text[Len(text)] \in Whitespace)
        /\ id \in DOMAIN store(s)
        /\ Len(store(s)[id]) < Len(text)

\* positions of the visible rows whose npi is a key of the store
Flaggable(s) ==
    { i \in 1..Len(page[s].df.rows) :
        page[s].df.rows[i].data["npi"] \in DOMAIN store(s) }

\* the j-th smallest element of a set of positions
Nth(K, j) == CHOOSE i \in K : Cardinality({ k \in K : k < i }) = j - 1

\* C3: after a completed pass with a non-empty store, the flagged table is
\* exactly the visible rows whose npi is a key of the store, in the visible
\* order, unchanged except for the added flag_note, which is the stored
\* note; keys of the store that are not visible contribute nothing.
C3_AnnotatedSubset ==
    \A s \in Sessions :
        (page[s].status = "done" /\ DOMAIN store(s) # {})
        => /\ Len(page[s].flagged_data.rows) = Cardinality(Flaggable(s))
           /\ \A j \in 1..Len(page[s].flagged_data.rows) :
                /\ page[s].flagged_data.rows[j].index
                     = page[s].df.rows[Nth(Flaggable(s), j)].index
                /\ \A c \in DOMAIN page[s].df.rows[Nth(Flaggable(s), j)].data :
                     page[s].flagged_data.rows[j].data[c]
                       = page[s].df.rows[Nth(Flaggable(s), j)].data[c]
                /\ page[s].flagged_data.rows[j].data["flag_note"]
                     = store(s)[page[s].flagged_data.rows[j].data["npi"]]

\* a flagged record is filtered out of the visible subset while another
\* flagged record is still shown
C3_Witness ==
    \E s \in Sessions :
        /\ page[s].status = "done"
        /\ \E id \in DOMAIN store(s) : id \notin SeqToSet(npis(page[s].df))
        /\ Len(page[s].flagged_data.rows) >= 1

\* a row of the loaded table satisfies every filter the sidebar has enabled
SatisfiesCriteria(r, w) ==
    /\ \E k \in 1..Len(r.data["license_states_list"]) :
         r.data["license_states_list"][k] \in w.selected_states
    /\ (w.specialty_filter = "Emergency Room Doctors"
          => /\ r.data["primary_specialty"] # NaN
             /\ contains(lower(r.data["primary_specialty"]), lower(Emergency)))
    /\ (w.active_only => r.data["status"] = "ACTIVE")
    /\ (w.multi_state_only => r.data["multi_state_licensed"])
    /\ (w.locum_only => r.data["locum_candidate_flag"])
    /\ r.data["recruiter_priority_score"] >= w.min_score

\* C4: after a completed pass the visible table is a sub-sequence of the
\* loaded table: every visible row is a loaded row, unaltered, the rows are
\* in strictly increasing order of their row label (so none appears twice),
\* each satisfies every enabled filter, and on the two-record example with
\* active-only and minimum score 20 only the ACTIVE record scored 85 is shown.
C4_FiltersGiveSubsequence ==
    \A s \in Sessions :
        page[s].status = "done"
        => /\ page[s].df.columns = page[s].loaded.columns
           /\ \A j \in 1..Len(page[s].df.rows) :
                /\ \E i \in 1..Len(page[s].loaded.rows) :
                     page[s].loaded.rows[i] = page[s].df.rows[j]
                /\ \A k \in 1..(j - 1) :
                     page[s].df.rows[k].index < page[s].df.rows[j].index
                /\ SatisfiesCriteria(page[s].df.rows[j], widgets[s])
           /\ ( /\ page[s].seen = FileA
                /\ widgets[s].active_only
                /\ widgets[s].min_score = 20
                /\ ~widgets[s].multi_state_only
                /\ ~widgets[s].locum_only
                /\ widgets[s].specialty_filter = "All Doctors"
                /\ widgets[s].selected_states = widgets[s].options )
              => npis(page[s].df) = <<1>>

\* the example of the claim: active-only and minimum score 20 leave the
\* first of the two records
C4_Witness ==
    \E s \in Sessions :
        /\ page[s].status = "done"
        /\ page[s].seen = FileA
        /\ widgets[s].active_only
        /\ widgets[s].min_score = 20
        /\ Len(page[s].loaded.rows) = 2
        /\ npis(page[s].df) = <<1>>

\* C5: with every known state selected, the license-state stage drops no
\* row: each loaded row that satisfies the other enabled filters is visible.
C5_AllStatesIsPassThrough ==
    \A s \in Sessions :
        (page[s].status = "done" /\ widgets[s].selected_states = widgets[s].options)
        => \A i \in 1..Len(page[s].loaded.rows) :
             ( /\ (widgets[s].specialty_filter = "Emergency Room Doctors"
                     => str_contains_emergency(
                            page[s].loaded.rows[i].data["primary_specialty"]))
               /\ (widgets[s].active_only
                     => page[s].loaded.rows[i].data["status"] = "ACTIVE")
               /\ (widgets[s].multi_state_only
                     => page[s].loaded.rows[i].data["multi_state_licensed"])
               /\ (widgets[s].locum_only
                     => page[s].loaded.rows[i].data["locum_candidate_flag"])
               /\ page[s].loaded.rows[i].data["recruiter_priority_score"]
                     >= widgets[s].min_score )
             => \E j \in 1..Len(page[s].df.rows) :
                  page[s].df.rows[j] = page[s].loaded.rows[i]

LoadErrors ==
    {"not found", "empty or malformed", "unexpected error",
     "missing required columns"}

\* C6: a pass either runs to the end on a complete record set or is stopped
\* by one of the four reported load errors with nothing filtered, flagged or
\* exported; it never ends in an uncaught exception.
C6_LoadStopsOrCompletes ==
    \A s \in Sessions :
        /\ page[s].status \in {"none", "done", "stopped"}
        /\ page[s].status = "stopped"
             => /\ page[s].error \in LoadErrors
                /\ page[s].df = NoFrame
                /\ page[s].download = <<>>
        /\ page[s].error = "missing required columns"
             => /\ page[s].seen.kind = "table"
                /\ \E k \in 1..Len(required_columns) :
                     required_columns[k] \notin SeqToSet(page[s].seen.columns)

\* the pass of session s read the table it shows from the file itself
FreshLoad(s) ==
    /\ page[s].status = "done"
    /\ page[s].seen.kind = "table"
    /\ load_data_body(page[s].seen, "ok").result = "return"
    /\ page[s].loaded = load_data_body(page[s].seen, "ok").value

\* the pieces between commas, trimmed, without the empty ones
IsDecomposition(list, text) ==
    \E cuts \in SUBSET (1..Len(text)) :
        /\ \A k \in 1..Len(text) : (k \in cuts) <=> (text[k] = ",")
        /\ LET Piece(a, b) == SubSeq(text, a + 1, b - 1)
               bounds == {0, Len(text) + 1} \cup cuts
               starts == { a \in bounds : a <= Len(text)
                             /\ ~Blank(Piece(a, CHOOSE b \in bounds :
                                   b > a /\ \A c \in bounds : c > a => c >= b)) }
           IN  /\ Len(list) = Cardinality(starts)
               /\ \A j \in 1..Len(list) :
                    IsTrimOf(list[j],
                             Piece(Nth(starts, j),
                                   CHOOSE b \in bounds :
                                       b > Nth(starts, j)
                                       /\ \A c \in bounds : c > Nth(starts, j) => c >= b))

\* C7: after a load from the file, each record's license_states_list is the
\* comma-split, trimmed, empty-dropped decomposition of its license_states,
\* and a record whose license_states cell is empty in the file has the
\* empty list.
C7_LicenseStatesList ==
    \A s \in Sessions :
        FreshLoad(s)
        => \A i \in 1..Len(page[s].loaded.rows) :
             /\ IsDecomposition(page[s].loaded.rows[i].data["license_states_list"],
                                page[s].loaded.rows[i].data["license_states"])
             /\ page[s].seen.rows[i]["license_states"] = <<>>
                  => page[s].loaded.rows[i].data["license_states_list"] = <<>>

\* C8: the table a completed pass works on is the one the file held when
\* the pass ran, whatever the cache holds and however old it is.
C8_LoadReflectsSource ==
    \A s \in Sessions :
        page[s].status = "done"
        => /\ load_data_body(page[s].seen, "ok").result = "return"
           /\ page[s].loaded = load_data_body(page[s].seen, "ok").value

ExportColumns ==
    <<"full_name", "primary_specialty", "license_states",
      "recruiter_priority_score", "flag_note">>

\* C9: the header of the downloaded file is the five export columns that
\* the flagged table has, in that order, and nothing else.
C9_ExportColumns ==
    \A s \in Sessions :
        page[s].download # <<>>
        => page[s].download[1].header
             = SelectSeq(ExportColumns,
                         LAMBDA c : c \in SeqToSet(page[s].flagged_data.columns))

\* session s ran a pass in this step
Acted(s) ==
    \/ page'[s] # page[s]
    \/ session_state'[s] # session_state[s]
    \/ widgets'[s] # widgets[s]

\* C10: a step in which one session runs a pass or writes a note leaves the
\* store, the flagged table and the download of every other session as
\* they were.
C10_Step ==
    \A s \in Sessions : \A t \in Sessions \ {s} :
        Acted(s)
        => /\ session_state'[t] = session_state[t]
           /\ page'[t].flagged_data = page[t].flagged_data
           /\ page'[t].download = page[t].download

C10_SessionsIsolated == [][C10_Step]_vars

\* both sessions have flagged the same record with different notes
C10_Witness ==
    \E s \in Sessions : \E t \in Sessions \ {s} :
        \E id \in DOMAIN store(s) :
            /\ id \in DOMAIN store(t)
            /\ store(s)[id] # store(t)[id]
            /\ Len(page[s].flagged_data.rows) >= 1
            /\ Len(page[t].flagged_data.rows) >= 1

====
